---- MODULE Spec2Model ----
(***************************************************************************)
(* A state-machine model of wasmtime-api/src/externals.rs: the four        *)
(* external entities (Func, Global, Table, Memory) and the Extern union.   *)
(*                                                                         *)
(* Every entity starts unconstructed; its constructor is an action.  Each  *)
(* public method is one action that records the call (x_op), the state     *)
(* before it (x_pre) and what it returned (x_ret).  A Rust panic is the    *)
(* return record [tag |-> "panic", msg |-> ...]; the entity is left as the *)
(* unwinding leaves it.                                                    *)
(*                                                                         *)
(* Raw integers and float bit patterns are little-endian byte sequences,   *)
(* so that the pointer casts of VMGlobalDefinition (as_i32, as_u64, ...)   *)
(* read and write the bytes they really touch.                             *)
(***************************************************************************)
EXTENDS Integers, Sequences, FiniteSets, TLC

VARIABLES
    g, g_op, g_pre, g_ret, g_init, g_last,
    m, m_op, m_pre, m_ret,
    t, t_op, t_pre, t_ret, t_fresh,
    stack, heap, f_log,
    ext, e_op, e_ret, e_pre

gvars == <<g, g_op, g_pre, g_ret, g_init, g_last>>
mvars == <<m, m_op, m_pre, m_ret>>
tvars == <<t, t_op, t_pre, t_ret, t_fresh>>
fvars == <<stack, heap, f_log>>
evars == <<ext, e_op, e_ret, e_pre>>
vars == <<gvars, mvars, tvars, fvars, evars>>

\* ------------------------------------------------------------------------
\* Values and types (crate::values, crate::types)
\* ------------------------------------------------------------------------

None == [tag |-> "None"]

\* The call record of an entity no method was called on yet.
NoOp == [name |-> "none"]

Panic(msg) == [tag |-> "panic", msg |-> msg]

NumKinds == {"I32", "I64", "F32", "F64"}

Zero4 == <<0, 0, 0, 0>>

Ones4 == <<255, 255, 255, 255>>

\* 4-byte payloads: 0, 1, and 0xFFFFFFFF (-1 as i32, a NaN as f32 bits).
Bytes4 == {Zero4, <<1, 0, 0, 0>>, Ones4}

\* 8-byte payloads, among them one whose upper half alone is non-zero.
Bytes8 == {Zero4 \o Zero4, Zero4 \o <<1, 0, 0, 0>>, Ones4 \o Ones4}

KindWidth(k) == IF k \in {"I32", "F32"} THEN 4 ELSE IF k \in {"I64", "F64"} THEN 8 ELSE 0

\* Val: I32(i32) | I64(i64) | F32(u32 bits) | F64(u64 bits) | AnyRef | FuncRef
NumVals == [kind : {"I32", "F32"}, bits : Bytes4] \cup [kind : {"I64", "F64"}, bits : Bytes8]

NullRef == [kind |-> "AnyRef", bits |-> <<>>]

Val_type(val) == val.kind

Mutabilities == {"Const", "Var"}

GlobalTypes == [content : NumKinds \cup {"AnyRef"}, mutability : Mutabilities]

\* ------------------------------------------------------------------------
\* Global
\* ------------------------------------------------------------------------

\* VMGlobalDefinition: 8 bytes of storage, read and written through casts.
as_i32(storage) == SubSeq(storage, 1, 4)

as_i64(storage) == SubSeq(storage, 1, 8)

as_u32(storage) == SubSeq(storage, 1, 4)

as_u64(storage) == SubSeq(storage, 1, 8)

as_i32_mut(storage, b) == b \o SubSeq(storage, 5, 8)

as_i64_mut(storage, b) == b

as_u32_mut(storage, b) == b \o SubSeq(storage, 5, 8)

as_u64_mut(storage, b) == b

\* generate_global_export: a zeroed definition holding the initial value.
generate_global_export(ty, val) ==
    CASE val.kind \in {"I32", "F32"} -> as_u32_mut(Zero4 \o Zero4, val.bits)
      [] val.kind \in {"I64", "F64"} -> as_u64_mut(Zero4 \o Zero4, val.bits)
      [] OTHER -> Zero4 \o Zero4

\* A faulty Global::get: the float arms read the other width.
GetMisread(gl) ==
    CASE gl.type.content = "I32" -> [kind |-> "I32", bits |-> as_i32(gl.storage)]
      [] gl.type.content = "I64" -> [kind |-> "I64", bits |-> as_i64(gl.storage)]
      [] gl.type.content = "F32" -> [kind |-> "F32", bits |-> as_u64(gl.storage)]
      [] gl.type.content = "F64" -> [kind |-> "F64", bits |-> as_u32(gl.storage)]
      [] OTHER -> Panic("Global::get not implemented")

\* Global::get, as a function of the global: the Val returned, or the panic.
Global_get_result(gl) ==
    CASE gl.type.content = "I32" -> [kind |-> "I32", bits |-> as_i32(gl.storage)]
      [] gl.type.content = "I64" -> [kind |-> "I64", bits |-> as_i64(gl.storage)]
      [] gl.type.content = "F32" -> [kind |-> "F32", bits |-> as_u32(gl.storage)]
      [] gl.type.content = "F64" -> [kind |-> "F64", bits |-> as_u64(gl.storage)]
      [] OTHER -> Panic("Global::get not implemented")

\* Faulty kind checks: one that also refuses an immutable global, and none.
SetChecksMutability(gl, val) ==
    Val_type(val) # gl.type.content \/ gl.type.mutability = "Const"

SetNeverRejects(gl, val) == FALSE

\* The kind check that opens Global::set: TRUE when set panics on it.
Global_set_rejects(gl, val) == Val_type(val) # gl.type.content

\* The match of Global::set: the storage after the write, or the panic.
Global_set_write(gl, val) ==
    CASE val.kind = "I32" -> [tag |-> "ok", storage |-> as_i32_mut(gl.storage, val.bits)]
      [] val.kind = "I64" -> [tag |-> "ok", storage |-> as_i64_mut(gl.storage, val.bits)]
      [] val.kind = "F32" -> [tag |-> "ok", storage |-> as_u32_mut(gl.storage, val.bits)]
      [] val.kind = "F64" -> [tag |-> "ok", storage |-> as_u64_mut(gl.storage, val.bits)]
      [] OTHER -> Panic("Global::set not implemented")

\* Values a host passes to Global::new and Global::set.
GlobalVals == NumVals \cup {NullRef}

\* Global::new, for an initial value of the declared content kind.
GlobalNew(ty, val) ==
    /\ g = None
    /\ Val_type(val) = ty.content
    /\ g' = [type |-> ty, storage |-> generate_global_export(ty, val)]
    /\ g_op' = [name |-> "new", arg |-> val]
    /\ g_pre' = None
    /\ g_ret' = [tag |-> "ok"]
    /\ g_init' = val
    /\ g_last' = None

Global_new(ty, val) ==
    /\ GlobalNew(ty, val)
    /\ UNCHANGED <<mvars, tvars, fvars, evars>>

Global_get ==
    /\ g # None
    /\ g_op' = [name |-> "get", arg |-> None]
    /\ g_pre' = g
    /\ g_ret' = Global_get_result(g)
    /\ UNCHANGED <<g, g_init, g_last>>
    /\ UNCHANGED <<mvars, tvars, fvars, evars>>

Global_set(val) ==
    /\ g # None
    /\ g_op' = [name |-> "set", arg |-> val]
    /\ g_pre' = g
    /\ IF Global_set_rejects(g, val)
       THEN /\ g_ret' = Panic("global cannot be set to a value of this type")
            /\ UNCHANGED <<g, g_last>>
       ELSE LET w == Global_set_write(g, val)
            IN  IF w.tag = "ok"
                THEN /\ g' = [g EXCEPT !.storage = w.storage]
                     /\ g_ret' = [tag |-> "ok"]
                     /\ g_last' = val
                ELSE /\ g_ret' = w
                     /\ UNCHANGED <<g, g_last>>
    /\ UNCHANGED g_init
    /\ UNCHANGED <<mvars, tvars, fvars, evars>>

NextGlobal ==
    \/ \E ty \in GlobalTypes, val \in GlobalVals : Global_new(ty, val)
    \/ Global_get
    \/ \E val \in GlobalVals : Global_set(val)

\* ------------------------------------------------------------------------
\* Memory
\* ------------------------------------------------------------------------

WASM_PAGE_SIZE == 65536

\* Largest page count a memory type of the model declares.
MaxPages == 3

\* Largest delta passed to Memory::grow and Table::grow.
MaxDelta == 2

MemoryTypes == {ty \in [min : 0..MaxPages, max : 0..MaxPages] : ty.min =< ty.max}

\* Addresses a linear memory's base can take.
Bases == {"a0", "a1"}

\* generate_memory_export: an instance owning a memory of the type's minimum.
generate_memory_export(ty) ==
    [base |-> "a0", current_length |-> ty.min * WASM_PAGE_SIZE]

\* InstanceHandle::memory_grow: Some(old page count) with the definition
\* after the growth, or None with the definition untouched.  `room` is
\* whether the allocator has the capacity, `base` where the memory lies after.
memory_grow(mem, delta, room, base) ==
    LET old == mem.definition.current_length \div WASM_PAGE_SIZE
    IN  IF old + delta =< mem.type.max /\ room
        THEN [tag |-> "Some", old |-> old,
              definition |-> [base |-> base,
                              current_length |-> (old + delta) * WASM_PAGE_SIZE]]
        ELSE [tag |-> "None", definition |-> mem.definition]

Memory_data(mem) == mem.definition.base

Memory_data_size(mem) == mem.definition.current_length

\* A faulty Memory::size: the wrong divisor.
SizeInKiB(mem) == Memory_data_size(mem) \div 1024

Memory_size(mem) == Memory_data_size(mem) \div WASM_PAGE_SIZE

\* A faulty Memory::grow: the Option is not looked at.
GrowReportsSome(r) == TRUE

\* Option::is_some on what memory_grow returned.
Memory_grow_result(r) == r.tag = "Some"

MemoryNew(ty) ==
    /\ m = None
    /\ m' = [type |-> ty, definition |-> generate_memory_export(ty)]
    /\ m_op' = [name |-> "new", delta |-> 0, room |-> TRUE]
    /\ m_pre' = None
    /\ m_ret' = [tag |-> "ok"]

Memory_new(ty) ==
    /\ MemoryNew(ty)
    /\ UNCHANGED <<gvars, tvars, fvars, evars>>

Memory_grow(delta, room, base) ==
    /\ m # None
    /\ LET r == memory_grow(m, delta, room, base)
       IN  /\ m' = [m EXCEPT !.definition = r.definition]
           /\ m_ret' = [tag |-> "ok", val |-> Memory_grow_result(r)]
    /\ m_op' = [name |-> "grow", delta |-> delta, room |-> room]
    /\ m_pre' = m
    /\ UNCHANGED <<gvars, tvars, fvars, evars>>

\* Memory::size, Memory::data_size and Memory::data read the definition.
Memory_read ==
    /\ m # None
    /\ m_op' = [name |-> "size", delta |-> 0, room |-> TRUE]
    /\ m_pre' = m
    /\ m_ret' = [tag |-> "ok", size |-> Memory_size(m),
                 data_size |-> Memory_data_size(m), data |-> Memory_data(m)]
    /\ UNCHANGED m
    /\ UNCHANGED <<gvars, tvars, fvars, evars>>

NextMemory ==
    \/ \E ty \in MemoryTypes : Memory_new(ty)
    \/ \E delta \in 0..MaxDelta, room \in BOOLEAN, base \in Bases :
          Memory_grow(delta, room, base)
    \/ Memory_read

\* ------------------------------------------------------------------------
\* Table
\* ------------------------------------------------------------------------

\* Largest maximum a table type of the model declares.
MaxTable == 3

TableTypes ==
    {ty \in [element : {"FuncRef", "AnyRef"}, min : 0..MaxTable, max : 0..MaxTable] :
        ty.min =< ty.max}

FuncRefVal(f) == [kind |-> "FuncRef", bits |-> <<f>>]

\* Values a host stores in a table: the absent element and two functions.
TableVals == {NullRef} \cup {FuncRefVal(f) : f \in {1, 2}}

\* Indices a host passes: in range, just past the end, and far past it.
TableIndices == 0..(MaxTable + 1) \cup {2147483647}

\* VMCallerCheckedAnyfunc: the engine's table element; 0 is the null one.
into_checked_anyfunc(val) == IF val.kind = "FuncRef" THEN val.bits[1] ELSE 0

from_checked_anyfunc(item) == IF item = 0 THEN NullRef ELSE FuncRefVal(item)

\* generate_table_export: an instance owning a table of the type's minimum,
\* every slot the null element.
generate_table_export(ty) == [i \in 1..ty.min |-> 0]

\* table_utils::get_item: the element, or the absent element out of range.
get_item(elements, index) ==
    IF index < Len(elements) THEN from_checked_anyfunc(elements[index + 1]) ELSE NullRef

\* table_utils::set_item: whether the index was in range, and the elements after.
set_item(elements, index, val) ==
    IF index < Len(elements)
    THEN [ok |-> TRUE, elements |-> [elements EXCEPT ![index + 1] = into_checked_anyfunc(val)]]
    ELSE [ok |-> FALSE, elements |-> elements]

get_size(elements) == Len(elements)

\* table_utils::grow_table: refused past the type's maximum, else delta new
\* slots holding init.
grow_table(elements, ty, delta, init) ==
    IF Len(elements) + delta > ty.max
    THEN [ok |-> FALSE, elements |-> elements]
    ELSE [ok |-> TRUE,
          elements |-> elements \o [i \in 1..delta |-> into_checked_anyfunc(init)]]

Table_get_result(tb, index) == get_item(tb.elements, index)

\* A faulty Table::set: the result of set_item is dropped.
SetReportsTrue(tb, index, val) ==
    [ok |-> TRUE, elements |-> set_item(tb.elements, index, val).elements]

Table_set_result(tb, index, val) == set_item(tb.elements, index, val)

Table_size_result(tb) == get_size(tb.elements)

\* A faulty Table::grow: init is ignored, as Table::new ignores its own.
GrowIgnoresInit(tb, delta, init) == grow_table(tb.elements, tb.type, delta, NullRef)

Table_grow_result(tb, delta, init) == grow_table(tb.elements, tb.type, delta, init)

\* Table::new ignores its initial value (the TODO of the source).
TableNew(ty, init) ==
    /\ t = None
    /\ t_op' = [name |-> "new", index |-> 0, val |-> init]
    /\ t_pre' = None
    /\ IF ty.element = "FuncRef"
       THEN /\ t' = [type |-> ty, elements |-> generate_table_export(ty)]
            /\ t_ret' = [tag |-> "ok"]
       ELSE /\ t_ret' = Panic("table is not for funcref")
            /\ UNCHANGED t
    /\ t_fresh' = TRUE

Table_new(ty, init) ==
    /\ TableNew(ty, init)
    /\ UNCHANGED <<gvars, mvars, fvars, evars>>

Table_get(index) ==
    /\ t # None
    /\ t_op' = [name |-> "get", index |-> index, val |-> NullRef]
    /\ t_pre' = t
    /\ t_ret' = [tag |-> "ok", val |-> Table_get_result(t, index)]
    /\ UNCHANGED <<t, t_fresh>>
    /\ UNCHANGED <<gvars, mvars, fvars, evars>>

Table_set(index, val) ==
    /\ t # None
    /\ t_op' = [name |-> "set", index |-> index, val |-> val]
    /\ t_pre' = t
    /\ LET r == Table_set_result(t, index, val)
       IN  /\ t' = [t EXCEPT !.elements = r.elements]
           /\ t_ret' = [tag |-> "ok", val |-> r.ok]
    /\ UNCHANGED t_fresh
    /\ UNCHANGED <<gvars, mvars, fvars, evars>>

Table_size ==
    /\ t # None
    /\ t_op' = [name |-> "size", index |-> 0, val |-> NullRef]
    /\ t_pre' = t
    /\ t_ret' = [tag |-> "ok", val |-> Table_size_result(t)]
    /\ UNCHANGED <<t, t_fresh>>
    /\ UNCHANGED <<gvars, mvars, fvars, evars>>

Table_grow(delta, init) ==
    /\ t # None
    /\ t_op' = [name |-> "grow", index |-> delta, val |-> init]
    /\ t_pre' = t
    /\ LET r == Table_grow_result(t, delta, init)
       IN  /\ t' = [t EXCEPT !.elements = r.elements]
           /\ t_ret' = [tag |-> "ok", val |-> r.ok]
           /\ t_fresh' = (t_fresh /\ ~r.ok)
    /\ UNCHANGED <<gvars, mvars, fvars, evars>>

NextTable ==
    \/ \E ty \in TableTypes, init \in TableVals : Table_new(ty, init)
    \/ \E index \in TableIndices : Table_get(index)
    \/ \E index \in TableIndices, val \in TableVals : Table_set(index, val)
    \/ Table_size
    \/ \E delta \in 0..MaxDelta, init \in TableVals : Table_grow(delta, init)

\* ------------------------------------------------------------------------
\* Func and the Callable contract
\* ------------------------------------------------------------------------

\* Largest result arity of a function type of the model.
MaxArity == 2

\* Deepest nesting of Func::call (a host callable calling another Func).
MaxDepth == 2

\* Most traps allocated in one behaviour.
MaxTraps == 2

KindAt(i) == IF i % 2 = 1 THEN "I32" ELSE "F64"

\* FuncType: the parameter kinds and the result kinds, in declaration order.
FuncTypes ==
    {[params |-> [i \in 1..p |-> KindAt(i)], results |-> [i \in 1..r |-> KindAt(i + 1)]] :
        p \in {1}, r \in 0..MaxArity}

\* Val::default()
ValDefault == NullRef

\* A value of the slot's declared kind, as a callable writes it.
ResultVal(k) == [kind |-> k, bits |-> IF KindWidth(k) = 4 THEN Ones4 ELSE Ones4 \o Ones4]

Func_param_arity(ty) == Len(ty.params)

Func_result_arity(ty) == Len(ty.results)

\* let mut results = vec![Val::default(); self.result_arity()];
Func_call_buffer(ty) == [i \in 1..Func_result_arity(ty) |-> ValDefault]

\* Faulty returns of Func::call: the buffer handed out whatever the callable
\* returned, and the trap replaced by another.
ReturnExposesBuffer(results, outcome) == [tag |-> "Ok", vals |-> results]

ReturnFreshTrap(results, outcome) ==
    IF outcome.tag = "Err"
    THEN [tag |-> "Err", trap |-> outcome.trap + 1]
    ELSE [tag |-> "Ok", vals |-> results]

\* self.callable.call(params, &mut results)?; Ok(results.into_boxed_slice())
Func_call_return(results, outcome) ==
    IF outcome.tag = "Err"
    THEN [tag |-> "Err", trap |-> outcome.trap]
    ELSE [tag |-> "Ok", vals |-> results]

Top == stack[Len(stack)]

\* Func::call enters: the buffer is allocated and the callable starts.  With
\* a frame on the stack, it is that frame's host callable that calls.
Func_call(ty) ==
    /\ Len(stack) < MaxDepth
    /\ stack' = Append(stack, [type |-> ty, results |-> Func_call_buffer(ty), inner |-> None])
    /\ f_log' = None
    /\ UNCHANGED heap
    /\ UNCHANGED <<gvars, mvars, tvars, evars>>

\* The callable writes one slot of the buffer it was handed.
Callable_write(i) ==
    /\ stack # <<>>
    /\ i \in 1..Len(Top.results)
    /\ Top.results[i] = ValDefault
    /\ stack' = [stack EXCEPT ![Len(stack)].results[i] = ResultVal(Top.type.results[i])]
    /\ f_log' = None
    /\ UNCHANGED heap
    /\ UNCHANGED <<gvars, mvars, tvars, evars>>

\* What a host callable keeps of the return of a Func::call it made: the
\* trap, or that the call succeeded.
Kept(ret) == IF ret.tag = "Err" THEN ret ELSE [tag |-> "Ok"]

\* The callable has returned `outcome`: Func::call returns, its frame goes,
\* and the caller (a host callable, or the host itself) has what it returned.
\* f_log is the return just made; the next step of any call clears it.
Func_return(outcome) ==
    LET ret == Func_call_return(Top.results, outcome)
        rest == SubSeq(stack, 1, Len(stack) - 1)
    IN  /\ stack' = IF rest = <<>> THEN rest
                    ELSE [rest EXCEPT ![Len(rest)].inner = Kept(ret)]
        /\ f_log' = [depth |-> Len(stack), type |-> Top.type, results |-> Top.results,
                     inner |-> Top.inner, outcome |-> outcome, ret |-> ret]

Callable_ok ==
    /\ stack # <<>>
    /\ Func_return([tag |-> "Ok"])
    /\ UNCHANGED heap
    /\ UNCHANGED <<gvars, mvars, tvars, evars>>

\* The callable fails with a trap of its own.
Callable_trap ==
    /\ stack # <<>>
    /\ Len(heap) < MaxTraps
    /\ heap' = Append(heap, [message |-> "trap"])
    /\ Func_return([tag |-> "Err", trap |-> Len(heap) + 1])
    /\ UNCHANGED <<gvars, mvars, tvars, evars>>

\* The callable fails with the trap an inner Func::call gave it.
Callable_propagate ==
    /\ stack # <<>>
    /\ Top.inner.tag = "Err"
    /\ UNCHANGED heap
    /\ Func_return([tag |-> "Err", trap |-> Top.inner.trap])
    /\ UNCHANGED <<gvars, mvars, tvars, evars>>

NextFunc ==
    \/ \E ty \in FuncTypes : Func_call(ty)
    \/ \E i \in 1..MaxArity : Callable_write(i)
    \/ Callable_ok
    \/ Callable_trap
    \/ Callable_propagate

\* ------------------------------------------------------------------------
\* Extern
\* ------------------------------------------------------------------------

ExternTags == {"Func", "Global", "Table", "Memory"}

\* The entity an Extern's Rc points to: the store's global, table or memory,
\* or a Func of the type the Extern was built with.
Entity(e) ==
    CASE e.tag = "Func" -> [type |-> e.type]
      [] e.tag = "Global" -> g
      [] e.tag = "Table" -> t
      [] e.tag = "Memory" -> m

Extern_func(e) ==
    IF e.tag = "Func" THEN [tag |-> "ok", ref |-> "Func"] ELSE Panic("Extern::Func expected")

Extern_global(e) ==
    IF e.tag = "Global" THEN [tag |-> "ok", ref |-> "Global"]
    ELSE Panic("Extern::Global expected")

Extern_table(e) ==
    IF e.tag = "Table" THEN [tag |-> "ok", ref |-> "Table"] ELSE Panic("Extern::Table expected")

Extern_memory(e) ==
    IF e.tag = "Memory" THEN [tag |-> "ok", ref |-> "Memory"]
    ELSE Panic("Extern::Memory expected")

Accessor(name, e) ==
    CASE name = "func" -> Extern_func(e)
      [] name = "global" -> Extern_global(e)
      [] name = "table" -> Extern_table(e)
      [] name = "memory" -> Extern_memory(e)

Accessors == {"func", "global", "table", "memory"}

\* A faulty Extern::type: the Memory and Table arms exchanged.
TypeSwapsTableMemory(e) ==
    CASE e.tag = "Func" -> [kind |-> "ExternFunc", type |-> Entity(e).type]
      [] e.tag = "Memory" -> [kind |-> "ExternTable", type |-> Entity(e).type]
      [] e.tag = "Table" -> [kind |-> "ExternMemory", type |-> Entity(e).type]
      [] e.tag = "Global" -> [kind |-> "ExternGlobal", type |-> Entity(e).type]

Extern_type(e) ==
    CASE e.tag = "Func" -> [kind |-> "ExternFunc", type |-> Entity(e).type]
      [] e.tag = "Memory" -> [kind |-> "ExternMemory", type |-> Entity(e).type]
      [] e.tag = "Table" -> [kind |-> "ExternTable", type |-> Entity(e).type]
      [] e.tag = "Global" -> [kind |-> "ExternGlobal", type |-> Entity(e).type]

\* Extern::Func(Rc::new(RefCell::new(Func::new(store, ty, callable))))
Extern_wrap_func(ty) ==
    /\ ext = None
    /\ ext' = [tag |-> "Func", type |-> ty]
    /\ e_op' = "wrap"
    /\ e_ret' = [tag |-> "ok"]
    /\ e_pre' = <<ext, g, t, m>>
    /\ UNCHANGED <<gvars, mvars, tvars, fvars>>

\* Extern::Global(Rc::new(RefCell::new(Global::new(store, ty, val))))
Extern_wrap_global(ty, val) ==
    /\ ext = None
    /\ GlobalNew(ty, val)
    /\ ext' = [tag |-> "Global"]
    /\ e_op' = "wrap"
    /\ e_ret' = [tag |-> "ok"]
    /\ e_pre' = <<ext, g, t, m>>
    /\ UNCHANGED <<mvars, tvars, fvars>>

\* Extern::Table(Rc::new(RefCell::new(Table::new(store, ty, init)))); a
\* panic of Table::new leaves no Extern.
Extern_wrap_table(ty, init) ==
    /\ ext = None
    /\ TableNew(ty, init)
    /\ ext' = IF t' = None THEN None ELSE [tag |-> "Table"]
    /\ e_op' = "wrap"
    /\ e_ret' = t_ret'
    /\ e_pre' = <<ext, g, t, m>>
    /\ UNCHANGED <<gvars, mvars, fvars>>

\* Extern::Memory(Rc::new(RefCell::new(Memory::new(store, ty))))
Extern_wrap_memory(ty) ==
    /\ ext = None
    /\ MemoryNew(ty)
    /\ ext' = [tag |-> "Memory"]
    /\ e_op' = "wrap"
    /\ e_ret' = [tag |-> "ok"]
    /\ e_pre' = <<ext, g, t, m>>
    /\ UNCHANGED <<gvars, tvars, fvars>>

\* Raw export descriptors of the engine: the kind tag, the declared type and
\* the definition the descriptor points to.
Exports ==
    [tag : {"Function"}, type : FuncTypes]
    \cup [tag : {"Global"}, type : GlobalTypes, definition : Bytes8]
    \cup {[tag |-> "Table", type |-> ty, definition |-> generate_table_export(ty)] :
            ty \in {x \in TableTypes : x.element = "FuncRef"}}
    \cup {[tag |-> "Memory", type |-> ty, definition |-> generate_memory_export(ty)] :
            ty \in MemoryTypes}

\* Extern::from_wasmtime_export: the entity is built over the definition the
\* export names and wrapped in the variant of the export's kind.
Extern_from_wasmtime_export(export) ==
    /\ ext = None
    /\ e_op' = "wrap"
    /\ e_ret' = [tag |-> "ok"]
    /\ e_pre' = <<ext, g, t, m>>
    /\ \/ /\ export.tag = "Function"
          /\ ext' = [tag |-> "Func", type |-> export.type]
          /\ UNCHANGED <<gvars, mvars, tvars, fvars>>
       \/ /\ export.tag = "Memory"
          /\ m' = [type |-> export.type, definition |-> export.definition]
          /\ ext' = [tag |-> "Memory"]
          /\ UNCHANGED <<m_op, m_pre, m_ret, gvars, tvars, fvars>>
       \/ /\ export.tag = "Global"
          /\ g' = [type |-> export.type, storage |-> export.definition]
          /\ ext' = [tag |-> "Global"]
          /\ UNCHANGED <<g_op, g_pre, g_ret, g_init, g_last, mvars, tvars, fvars>>
       \/ /\ export.tag = "Table"
          /\ t' = [type |-> export.type, elements |-> export.definition]
          /\ ext' = [tag |-> "Table"]
          /\ UNCHANGED <<t_op, t_pre, t_ret, t_fresh, gvars, mvars, fvars>>

\* The accessors and type() are called with no RefMut of the entity
\* outstanding: no method of this file calls out while it holds one.
Extern_access(name) ==
    /\ ext # None
    /\ e_op' = name
    /\ e_ret' = Accessor(name, ext)
    /\ e_pre' = <<ext, g, t, m>>
    /\ UNCHANGED ext
    /\ UNCHANGED <<gvars, mvars, tvars, fvars>>

Extern_type_call ==
    /\ ext # None
    /\ e_op' = "type"
    /\ e_ret' = [tag |-> "ok", val |-> Extern_type(ext)]
    /\ e_pre' = <<ext, g, t, m>>
    /\ UNCHANGED ext
    /\ UNCHANGED <<gvars, mvars, tvars, fvars>>

NextExtern ==
    \/ \E ty \in FuncTypes : Extern_wrap_func(ty)
    \/ \E ty \in GlobalTypes, val \in GlobalVals : Extern_wrap_global(ty, val)
    \/ \E ty \in TableTypes, init \in TableVals : Extern_wrap_table(ty, init)
    \/ \E ty \in MemoryTypes : Extern_wrap_memory(ty)
    \/ \E export \in Exports : Extern_from_wasmtime_export(export)
    \/ \E name \in Accessors : Extern_access(name)
    \/ Extern_type_call

\* ------------------------------------------------------------------------
\* Specifications
\* ------------------------------------------------------------------------

Init ==
    /\ g = None /\ g_op = NoOp /\ g_pre = None /\ g_ret = None
    /\ g_init = None /\ g_last = None
    /\ m = None /\ m_op = NoOp /\ m_pre = None /\ m_ret = None
    /\ t = None /\ t_op = NoOp /\ t_pre = None /\ t_ret = None /\ t_fresh = TRUE
    /\ stack = <<>> /\ heap = <<>> /\ f_log = None
    /\ ext = None /\ e_op = "none" /\ e_ret = None /\ e_pre = <<None, None, None, None>>

Next == NextGlobal \/ NextMemory \/ NextTable \/ NextFunc \/ NextExtern

Spec == Init /\ [][Next]_vars

SpecGlobal == Init /\ [][NextGlobal]_vars

SpecMemory == Init /\ [][NextMemory]_vars

SpecTable == Init /\ [][NextTable]_vars

SpecFunc == Init /\ [][NextFunc]_vars

SpecExtern == Init /\ [][NextExtern]_vars

\* ------------------------------------------------------------------------
\* Properties of Global
\* ------------------------------------------------------------------------

\* C1: on a Global of numeric content kind K, a set of a value of kind K
\* succeeds and a get right after it would return that value bit for bit;
\* and every get returns the value of the last successful set.
C1_SetGetRoundTrip ==
    /\ (g_op.name = "set" /\ g_pre.type.content \in NumKinds
            /\ Val_type(g_op.arg) = g_pre.type.content)
        => (g_ret = [tag |-> "ok"] /\ Global_get_result(g) = g_op.arg /\ g_last = g_op.arg)
    /\ (g_op.name = "get" /\ g.type.content \in NumKinds /\ g_last # None)
        => g_ret = g_last

\* A get that returned the NaN pattern a set wrote over a different initial value.
C1_Witness ==
    /\ g_op.name = "get"
    /\ g.type.content = "F32"
    /\ g_last = [kind |-> "F32", bits |-> Ones4]
    /\ g_init # g_last
    /\ g_ret = g_last

\* C2: a set whose value kind differs from the declared content kind panics
\* and leaves the backing cell as it was.
C2_MismatchPanicsBeforeWrite ==
    (g_op.name = "set" /\ Val_type(g_op.arg) # g_pre.type.content)
        => (g_ret.tag = "panic" /\ g = g_pre /\ g.storage = g_pre.storage)

\* A mismatched set (an I64 value on an F32 global) on a cell already written.
C2_Witness ==
    /\ g_op.name = "set"
    /\ g_pre.type.content = "F32"
    /\ Val_type(g_op.arg) = "I64"
    /\ g_op.arg.bits # Zero4 \o Zero4
    /\ g_last # None
    /\ g_ret.tag = "panic"

\* C10: set never looks at the mutability: on a Global declared immutable, a
\* set of the declared kind does not panic and overwrites the cell, and a
\* later get returns the value set, not the one given at construction.
C10_ImmutableIsWritten ==
    /\ (g_op.name = "set" /\ g_pre.type.mutability = "Const"
            /\ g_pre.type.content \in NumKinds /\ Val_type(g_op.arg) = g_pre.type.content)
        => (g_ret.tag # "panic"
            /\ g.storage = Global_set_write(g_pre, g_op.arg).storage
            /\ Global_get_result(g) = g_op.arg)
    /\ (g_op.name = "get" /\ g.type.mutability = "Const"
            /\ g.type.content \in NumKinds /\ g_last # None /\ g_last # g_init)
        => (g_ret = g_last /\ g_ret # g_init)

\* An immutable I64 global whose get returns a value other than its initial one.
C10_Witness ==
    /\ g_op.name = "get"
    /\ g.type = [content |-> "I64", mutability |-> "Const"]
    /\ g_last # None
    /\ g_ret # g_init
    /\ g_ret = g_last

\* ------------------------------------------------------------------------
\* Properties of Table
\* ------------------------------------------------------------------------

\* C3: on a table of N slots that has not grown since construction, get at
\* an index >= N returns the absent element, set at an index >= N returns
\* false, and either leaves the size N and every slot as it was; neither panics.
C3_OutOfRangeIsAMiss ==
    (t_fresh /\ t_op.name \in {"get", "set"} /\ t_op.index >= t_pre.type.min)
        => /\ Len(t_pre.elements) = t_pre.type.min
           /\ t_ret.tag = "ok"
           /\ t_op.name = "get" => t_ret.val = NullRef
           /\ t_op.name = "set" => t_ret.val = FALSE
           /\ Table_size_result(t) = t_pre.type.min
           /\ t.elements = t_pre.elements

\* A set just past the end of a never-grown table that holds a function.
C3_Witness ==
    /\ t_fresh
    /\ t_op.name = "set"
    /\ t_op.index = t.type.min
    /\ t_op.val # NullRef
    /\ t_ret.val = FALSE
    /\ \E i \in 1..Len(t.elements) : t.elements[i] # 0

\* C4: grow(delta, init) within the declared maximum returns true, adds
\* exactly delta slots that read back as init and keeps the old slots; past
\* the maximum it returns false and changes nothing.
C4_GrowAllOrNothing ==
    t_op.name = "grow" =>
        LET n == Table_size_result(t_pre)
            delta == t_op.index
        IN  IF n + delta =< t_pre.type.max
            THEN /\ t_ret = [tag |-> "ok", val |-> TRUE]
                 /\ Table_size_result(t) = n + delta
                 /\ \A i \in n..(n + delta - 1) : Table_get_result(t, i) = t_op.val
                 /\ \A i \in 0..(n - 1) : Table_get_result(t, i) = Table_get_result(t_pre, i)
            ELSE /\ t_ret = [tag |-> "ok", val |-> FALSE]
                 /\ t = t_pre

\* A grow refused on a table that grew before and holds a function.
C4_Witness ==
    /\ t_op.name = "grow"
    /\ t_ret.val = FALSE
    /\ ~t_fresh
    /\ Table_size_result(t) > t.type.min
    /\ \E i \in 1..Len(t.elements) : t.elements[i] # 0

\* ------------------------------------------------------------------------
\* Properties of Memory
\* ------------------------------------------------------------------------

\* C5: grow(d) with room and within the declared maximum returns true and
\* adds exactly d pages (d * 65536 bytes); otherwise it returns false, without
\* panicking, and size, data_size and data are what they were.
C5_MemoryGrowAllOrNothing ==
    m_op.name = "grow" =>
        IF Memory_size(m_pre) + m_op.delta =< m_pre.type.max /\ m_op.room
        THEN /\ m_ret = [tag |-> "ok", val |-> TRUE]
             /\ Memory_size(m) = Memory_size(m_pre) + m_op.delta
             /\ Memory_data_size(m) = Memory_data_size(m_pre) + m_op.delta * 65536
        ELSE /\ m_ret = [tag |-> "ok", val |-> FALSE]
             /\ Memory_size(m) = Memory_size(m_pre)
             /\ Memory_data_size(m) = Memory_data_size(m_pre)
             /\ Memory_data(m) = Memory_data(m_pre)

\* A grow refused for the maximum on a memory that grew before.
C5_Witness ==
    /\ m_op.name = "grow"
    /\ m_op.room
    /\ m_ret.val = FALSE
    /\ Memory_size(m) > m.type.min

\* C6: a fresh memory of P pages has size P and P * 65536 bytes, and in every
\* state the byte length is a multiple of 65536 and size * 65536.
C6_PageAligned ==
    m # None =>
        /\ Memory_data_size(m) % 65536 = 0
        /\ Memory_data_size(m) = Memory_size(m) * 65536
        /\ m_op.name = "new" =>
              (Memory_size(m) = m.type.min /\ Memory_data_size(m) = m.type.min * 65536)

\* A memory of at least one page that grew and then was refused a growth.
C6_Witness ==
    /\ m # None
    /\ m_op.name = "grow"
    /\ m_ret.val = FALSE
    /\ m.type.min >= 1
    /\ Memory_size(m) > m.type.min

\* ------------------------------------------------------------------------
\* Properties of Func
\* ------------------------------------------------------------------------

\* C7: when the callable succeeds, call returns the buffer as the callable
\* filled it: as many values as the type declares results, slot i the default
\* or the value written for result i; when it fails, call returns the trap
\* and nothing of the buffer.
C7_ResultsOrTrap ==
    f_log # None =>
        IF f_log.outcome.tag = "Ok"
        THEN /\ f_log.ret.tag = "Ok"
             /\ Len(f_log.ret.vals) = Func_result_arity(f_log.type)
             /\ f_log.ret.vals = f_log.results
             /\ \A i \in 1..Len(f_log.ret.vals) :
                   f_log.ret.vals[i] \in {ValDefault, ResultVal(f_log.type.results[i])}
        ELSE /\ f_log.ret.tag = "Err"
             /\ DOMAIN f_log.ret = {"tag", "trap"}

\* A call of a two-result Func that trapped after its callable wrote a slot.
C7_Witness ==
    /\ f_log # None
    /\ f_log.outcome.tag = "Err"
    /\ Func_result_arity(f_log.type) = 2
    /\ f_log.results[2] # ValDefault
    /\ f_log.ret.tag = "Err"

\* C9: when a host callable fails with the trap an inner Func::call gave it,
\* the outer Func::call returns that very trap, an allocated one, and no
\* results.
C9_TrapPropagatesUnchanged ==
    (f_log # None /\ f_log.inner.tag = "Err"
        /\ f_log.outcome = [tag |-> "Err", trap |-> f_log.inner.trap])
        => /\ f_log.ret = [tag |-> "Err", trap |-> f_log.inner.trap]
           /\ f_log.ret.trap \in 1..Len(heap)
           /\ heap[f_log.ret.trap] = [message |-> "trap"]

\* The outermost call returned the trap of the call nested in it.
C9_Witness ==
    /\ f_log # None
    /\ f_log.depth = 1
    /\ stack = <<>>
    /\ f_log.inner.tag = "Err"
    /\ f_log.outcome.tag = "Err"
    /\ f_log.ret = [tag |-> "Err", trap |-> f_log.inner.trap]

\* ------------------------------------------------------------------------
\* Properties of Extern
\* ------------------------------------------------------------------------

VariantOf(name) ==
    CASE name = "func" -> "Func"
      [] name = "global" -> "Global"
      [] name = "table" -> "Table"
      [] name = "memory" -> "Memory"

KindTagOf(name) ==
    CASE name = "func" -> "ExternFunc"
      [] name = "global" -> "ExternGlobal"
      [] name = "table" -> "ExternTable"
      [] name = "memory" -> "ExternMemory"

\* C8: of func(), global(), table() and memory() exactly one returns, the
\* one of the active variant, and the others panic; type() has the kind tag
\* of that one, carries the entity's type and changes nothing.
C8_OneVariantActive ==
    ext # None =>
        /\ Cardinality({a \in Accessors : Accessor(a, ext).tag = "ok"}) = 1
        /\ \A a \in Accessors :
              IF VariantOf(a) = ext.tag
              THEN /\ Accessor(a, ext) = [tag |-> "ok", ref |-> ext.tag]
                   /\ Extern_type(ext).kind = KindTagOf(a)
              ELSE Accessor(a, ext).tag = "panic"
        /\ e_op \in Accessors => e_ret = Accessor(e_op, ext)
        /\ e_op = "type" =>
              /\ e_ret.val = Extern_type(ext)
              /\ e_ret.val.type = Entity(ext).type
              /\ <<ext, g, t, m>> = e_pre

\* type() was called on an Extern holding a table.
C8_Witness ==
    /\ ext # None
    /\ ext.tag = "Table"
    /\ e_op = "type"
    /\ e_ret.val.kind = "ExternTable"
    /\ e_ret.val.type = t.type

====
